---------------------------- MODULE Spec2Model ----------------------------
(***************************************************************************)
(* Model of src/softwarepower.py: a CRC-tagged payload, PKCS7-style        *)
(* padding, AES in ECB mode, and the loop that measures the CPU share of   *)
(* repeated encryption / decryption.                                       *)
(*                                                                         *)
(* Python values are modelled as follows.                                  *)
(*   bytes      a sequence of integers in 0..255                           *)
(*   a call     a record [exc, at, val]: exc = "none" and val the returned *)
(*              value, or exc the name of the Python exception raised and  *)
(*              at the call that raised it                                 *)
(*   a float    an exact fraction <<numerator, denominator>>               *)
(*   32 bits    a pair <<hi, lo>> of 16-bit halves (TLC's integers are     *)
(*              32-bit signed, a CRC is 32-bit unsigned)                   *)
(*                                                                         *)
(* Crypto.Cipher.AES is a library outside the repository.  It is modelled  *)
(* by what the code relies on: AES.new accepts keys of 16, 24 and 32       *)
(* bytes and raises ValueError otherwise; in ECB mode encrypt and decrypt  *)
(* raise ValueError on data that is not a multiple of 16 bytes long and    *)
(* otherwise map each 16-byte block through a keyed permutation and its    *)
(* inverse.  The permutation used here (rotate the block, add the key) is  *)
(* a stand-in for the AES rounds.                                          *)
(***************************************************************************)
EXTENDS Integers, Sequences, FiniteSets, TLC

(***************************************************************************)
(* Bounds of the model.                                                    *)
(***************************************************************************)
MaxIter == 2          \* NUM_ITERATIONS ranges over 0..MaxIter
MaxTextLen == 12      \* the text typed in has 0..MaxTextLen bytes
MaxCpu == 1           \* process CPU time samples range over 0..MaxCpu
MaxClock == 1         \* wall-clock samples range over 0..MaxClock
MaxDataLen == 33      \* byte strings handed to the codec have 0..MaxDataLen bytes

(***************************************************************************)
(* Program constants.                                                      *)
(***************************************************************************)
CPU_TDP_WATTS == 15
BLOCK == 16
CRC_LEN == 4

\* A name that is not bound yet: a function name, a byte string, a number,
\* the metrics of a call, the exception that ended the program.
None == "None"
NoBytes == <<-1>>
NoNum == -1
NoMetrics == [cpu_percent |-> <<0, 0>>, avg_time |-> <<0, 0>>,
              avg_power |-> <<0, 0>>, avg_energy |-> <<0, 0>>]

Ok(v) == [exc |-> "none", at |-> "", val |-> v]
Raise(e, where) == [exc |-> e, at |-> where, val |-> <<>>]
NoError == Ok(<<>>)

(***************************************************************************)
(* Python slices.                                                          *)
(***************************************************************************)
\* data[:-n] for n >= 0: -0 is 0, so data[:-0] is data[:0], the empty string
SliceDropLast(data, n) ==
    LET stop == IF n = 0 THEN 0
                ELSE IF Len(data) - n < 0 THEN 0 ELSE Len(data) - n
    IN  SubSeq(data, 1, stop)

\* bytes([b]) * n
Repeat(b, n) == [i \in 1..n |-> b]

(***************************************************************************)
(* binascii.crc32: the reflected CRC-32, polynomial 0xEDB88320, register   *)
(* preset to and finally inverted with 0xFFFFFFFF.                         *)
(***************************************************************************)
\* bit w (a power of two) of a ^ b
XorBit(a, b, w) == (((a \div w) + (b \div w)) % 2) * w

\* a ^ b on 16-bit halves
Xor(a, b) ==
    XorBit(a, b, 1) + XorBit(a, b, 2) + XorBit(a, b, 4) + XorBit(a, b, 8)
    + XorBit(a, b, 16) + XorBit(a, b, 32) + XorBit(a, b, 64) + XorBit(a, b, 128)
    + XorBit(a, b, 256) + XorBit(a, b, 512) + XorBit(a, b, 1024) + XorBit(a, b, 2048)
    + XorBit(a, b, 4096) + XorBit(a, b, 8192) + XorBit(a, b, 16384) + XorBit(a, b, 32768)

Xor32(x, y) == <<Xor(x[1], y[1]), Xor(x[2], y[2])>>
Shr32(x) == <<x[1] \div 2, (x[2] \div 2) + (x[1] % 2) * 32768>>
CrcPoly == <<60856, 33568>>     \* 0xEDB8 8320
Ones32 == <<65535, 65535>>      \* 0xFFFF FFFF

\* one bit of the register: shift right, and fold the polynomial in on a carry
\* (the register is bound through a one-element set so that it is computed once)
CrcShift(reg) ==
    CHOOSE x \in {IF r[2] % 2 = 1 THEN Xor32(Shr32(r), CrcPoly) ELSE Shr32(r) : r \in {reg}} :
        TRUE

CrcByte(reg, byte) ==
    CrcShift(CrcShift(CrcShift(CrcShift(CrcShift(CrcShift(CrcShift(CrcShift(
        Xor32(reg, <<0, byte>>)))))))))

RECURSIVE CrcBytes(_, _, _)
CrcBytes(reg, data, i) ==
    IF i > Len(data) THEN reg
    ELSE CHOOSE x \in {CrcBytes(r, data, i + 1) : r \in {CrcByte(reg, data[i])}} : TRUE

binascii_crc32(data) == Xor32(CrcBytes(Ones32, data, 1), Ones32)

\* compute_crc32: binascii.crc32(data) & 0xFFFFFFFF
compute_crc32(data) ==
    LET c == binascii_crc32(data) IN <<c[1] % 65536, c[2] % 65536>>

\* crc_val.to_bytes(4, "big")
to_bytes_big(c) == <<c[1] \div 256, c[1] % 256, c[2] \div 256, c[2] % 256>>

\* data_block = user_text + crc_val.to_bytes(4, "big")
build(user_text) == user_text \o to_bytes_big(compute_crc32(user_text))

\* decrypted[:-4]
strip(decrypted) == SliceDropLast(decrypted, CRC_LEN)

(***************************************************************************)
(* PKCS7 padding.                                                          *)
(***************************************************************************)
\* a padding that adds nothing to data that is already block-aligned
pad_NoFullBlock(data) ==
    LET pad_len == (BLOCK - (Len(data) % BLOCK)) % BLOCK
    IN  data \o Repeat(pad_len, pad_len)

pad(data) ==
    LET pad_len == BLOCK - (Len(data) % BLOCK)
    IN  data \o Repeat(pad_len, pad_len)

\* an unpadding that leaves one pad byte behind
unpad_KeepsOne(data) ==
    IF Len(data) = 0 THEN Raise("IndexError", "unpad")
    ELSE LET pad_len == data[Len(data)]
         IN  Ok(SubSeq(data, 1, Len(data) - pad_len + 1))

\* data[-1] raises IndexError on the empty string
unpad(data) ==
    IF Len(data) = 0 THEN Raise("IndexError", "unpad")
    ELSE LET pad_len == data[Len(data)]
         IN  Ok(SliceDropLast(data, pad_len))

(***************************************************************************)
(* Crypto.Cipher.AES, ECB mode.                                            *)
(***************************************************************************)
KeyByte(key, i) == key[((i - 1) % Len(key)) + 1]
Rot(i) == (i % BLOCK) + 1

EncBlock(b, key) ==
    [i \in 1..BLOCK |-> (b[Rot(i)] + KeyByte(key, i) + Len(key)) % 256]

DecBlock(c, key) ==
    [j \in 1..BLOCK |->
        LET i == ((j + BLOCK - 2) % BLOCK) + 1
        IN  (c[i] + 512 - KeyByte(key, i) - Len(key)) % 256]

BlockOf(data, n) == SubSeq(data, (n - 1) * BLOCK + 1, n * BLOCK)

\* ECB: each block on its own, no chaining
EcbEncrypt(data, key) ==
    [i \in 1..Len(data) |->
        EncBlock(BlockOf(data, ((i - 1) \div BLOCK) + 1), key)[((i - 1) % BLOCK) + 1]]

EcbDecrypt(data, key) ==
    [i \in 1..Len(data) |->
        DecBlock(BlockOf(data, ((i - 1) \div BLOCK) + 1), key)[((i - 1) % BLOCK) + 1]]

\* AES.new(key, AES.MODE_ECB)
AES_new(key) ==
    IF Len(key) \in {16, 24, 32} THEN Ok(key)
    ELSE Raise("ValueError", "AES.new")

cipher_encrypt(key, data) ==
    IF Len(data) % BLOCK # 0 THEN Raise("ValueError", "cipher.encrypt")
    ELSE Ok(EcbEncrypt(data, key))

cipher_decrypt(key, data) ==
    IF Len(data) % BLOCK # 0 THEN Raise("ValueError", "cipher.decrypt")
    ELSE Ok(EcbDecrypt(data, key))

aes_encrypt(plaintext, key) ==
    LET cipher == AES_new(key)
    IN  IF cipher.exc # "none" THEN cipher
        ELSE cipher_encrypt(key, pad(plaintext))

aes_decrypt(ciphertext, key) ==
    LET cipher == AES_new(key)
    IN  IF cipher.exc # "none" THEN cipher
        ELSE LET plain == cipher_decrypt(key, ciphertext)
             IN  IF plain.exc # "none" THEN plain
                 ELSE unpad(plain.val)

(***************************************************************************)
(* Inputs.                                                                 *)
(***************************************************************************)
Seeds == {65, 250}
Pattern(n, seed) == [i \in 1..n |-> (seed + 7 * i) % 256]
KeyOf(n, seed) == [i \in 1..n |-> (3 * seed + 11 * i) % 256]

\* input("Enter plaintext to encrypt: ").encode()
Texts == {Pattern(n, s) : n \in 0..MaxTextLen, s \in Seeds}
\* get_random_bytes(16)
Keys16 == {KeyOf(BLOCK, s) : s \in Seeds}

\* what a caller may hand to the codec
KeyLens == {0, 15, 16, 17, 24, 32}
Keys == {KeyOf(n, s) : n \in KeyLens, s \in Seeds}
Payloads == {Pattern(n, s) : n \in 0..MaxDataLen, s \in Seeds}
PadBytes == {0, 1, 4, 15, 16, 17, 32, 33, 255}
WithLast(data, b) == [i \in 1..Len(data) |-> IF i = Len(data) THEN b ELSE data[i]]
\* block-aligned data whose last byte is not a pad length that pad() writes
RawPlain == {WithLast(Pattern(n * BLOCK, s), b) : n \in 1..2, s \in Seeds, b \in PadBytes}
CiphertextsFor(k) ==
    Payloads \cup
    (IF AES_new(k).exc = "none"
     THEN {cipher_encrypt(k, raw).val : raw \in RawPlain}
     ELSE {})

(***************************************************************************)
(* State.                                                                  *)
(***************************************************************************)
VARIABLES
    NUM_ITERATIONS,   \* the module constant, line 9
    pc,               \* the statement the program is at
    inv,              \* which call of measure_power_loop: "none", "enc", "dec"
    user_text, key, data_block,                 \* main, lines 77-84
    ciphertext, enc, decrypted, dec,            \* main, lines 87 and 100
    decrypted_text,                             \* main, line 105
    func, data,                                 \* measure_power_loop's parameters
    cpu_before, t_before, iter, output, t_after, cpu_after,   \* its locals
    err,              \* the exception that ended the program
    cpu_clock,        \* the process's accumulated CPU time
    trace,            \* what the calls of measure_power_loop did, in order
    call, ret         \* a call of a codec function by any caller, and its result

mainvars == <<user_text, key, data_block, ciphertext, enc, decrypted, dec, decrypted_text>>
locals == <<func, data, cpu_before, t_before, iter, output, t_after, cpu_after>>
codecvars == <<call, ret>>
vars == <<NUM_ITERATIONS, pc, inv, mainvars, locals, err, cpu_clock, trace, codecvars>>

NoCall == [fn |-> "none", data |-> <<>>, key |-> <<>>]

Event(kind, v, a, o) == [inv |-> inv, ev |-> kind, val |-> v, args |-> a, out |-> o]

\* the state the program starts in, whatever NUM_ITERATIONS is set to
Start ==
    /\ pc = "input"
    /\ inv = "none"
    /\ user_text = NoBytes /\ key = NoBytes /\ data_block = NoBytes
    /\ ciphertext = NoBytes /\ enc = NoMetrics /\ decrypted = NoBytes /\ dec = NoMetrics
    /\ decrypted_text = NoBytes
    /\ func = None /\ data = NoBytes
    /\ cpu_before = NoNum /\ t_before = NoNum /\ iter = NoNum /\ output = NoBytes
    /\ t_after = NoNum /\ cpu_after = NoNum
    /\ err = NoError
    /\ cpu_clock = 0
    /\ trace = <<>>
    /\ call = NoCall /\ ret = Ok(<<>>)

Init ==
    /\ NUM_ITERATIONS \in 0..MaxIter
    /\ Start

(***************************************************************************)
(* Main program, lines 73-120 (prints left out).  Line 73 reads            *)
(* if _name_ == "_main_": and is taken as the usual guard on __name__.     *)
(***************************************************************************)
MainInput ==
    /\ pc = "input"
    /\ \E text \in Texts, k \in Keys16 :
        /\ user_text' = text
        /\ key' = k
        /\ data_block' = build(text)
    /\ pc' = "call_enc"
    /\ UNCHANGED <<NUM_ITERATIONS, inv, ciphertext, enc, decrypted, dec, decrypted_text,
                   locals, err, cpu_clock, trace, codecvars>>

\* a call of measure_power_loop binds its parameters in a new frame
Enter(at, which, f, d) ==
    /\ pc = at
    /\ inv' = which
    /\ func' = f
    /\ data' = d
    /\ iter' = 0
    /\ cpu_before' = NoNum /\ t_before' = NoNum /\ output' = NoBytes
    /\ t_after' = NoNum /\ cpu_after' = NoNum
    /\ pc' = "cpu_before"
    /\ UNCHANGED <<NUM_ITERATIONS, mainvars, err, cpu_clock, trace, codecvars>>

CallEnc == Enter("call_enc", "enc", "aes_encrypt", data_block)
CallDec == Enter("call_dec", "dec", "aes_decrypt", ciphertext)

MainStrip ==
    /\ pc = "strip"
    /\ decrypted_text' = strip(decrypted)
    /\ pc' = "done"
    /\ UNCHANGED <<NUM_ITERATIONS, inv, user_text, key, data_block, ciphertext, enc,
                   decrypted, dec, locals, err, cpu_clock, trace, codecvars>>

(***************************************************************************)
(* measure_power_loop, lines 46-67.                                        *)
(***************************************************************************)
Apply(f, d, k) == IF f = "aes_encrypt" THEN aes_encrypt(d, k) ELSE aes_decrypt(d, k)

\* a loop that runs once too often
LoopContinues_OneMore == iter <= NUM_ITERATIONS

\* for _ in range(NUM_ITERATIONS)
LoopContinues == iter < NUM_ITERATIONS

Frac(n, d) == <<n, d>>

\* metrics that charge the call with all the CPU time the process has used so far
Metrics_NoBaseline(cb, tb, ta, ca, n) ==
    LET wall == ta - tb
        cpu_used == ca
        cpu_percent == <<cpu_used * 100, wall>>
        avg_time == <<wall, n>>
        avg_power == <<cpu_percent[1] * CPU_TDP_WATTS, cpu_percent[2] * 100>>
        avg_energy == <<avg_power[1] * avg_time[1], avg_power[2] * avg_time[2]>>
    IN  [cpu_percent |-> cpu_percent, avg_time |-> avg_time,
         avg_power |-> avg_power, avg_energy |-> avg_energy]

\* lines 58-65; the caller has checked that neither division is by zero
Metrics(cb, tb, ta, ca, n) ==
    LET wall == ta - tb
        cpu_used == ca - cb
        cpu_percent == Frac(cpu_used * 100, wall)
        avg_time == Frac(wall, n)
        avg_power == Frac(cpu_percent[1] * CPU_TDP_WATTS, cpu_percent[2] * 100)
        avg_energy == Frac(avg_power[1] * avg_time[1], avg_power[2] * avg_time[2])
    IN  [cpu_percent |-> cpu_percent, avg_time |-> avg_time,
         avg_power |-> avg_power, avg_energy |-> avg_energy]

SampleCpuBefore ==
    /\ pc = "cpu_before"
    /\ \E c \in cpu_clock..MaxCpu :
        /\ cpu_before' = c
        /\ cpu_clock' = c
        /\ trace' = Append(trace, Event("cpu_before", c, <<>>, <<>>))
    /\ pc' = "t_before"
    /\ UNCHANGED <<NUM_ITERATIONS, inv, mainvars, func, data, t_before, iter, output,
                   t_after, cpu_after, err, codecvars>>

\* time.time() follows the system clock, which may be set back between two calls
SampleTBefore ==
    /\ pc = "t_before"
    /\ \E now \in 0..MaxClock :
        /\ t_before' = now
        /\ trace' = Append(trace, Event("t_before", now, <<>>, <<>>))
    /\ pc' = "loop"
    /\ UNCHANGED <<NUM_ITERATIONS, inv, mainvars, func, data, cpu_before, iter, output,
                   t_after, cpu_after, err, cpu_clock, codecvars>>

LoopBody ==
    /\ pc = "loop"
    /\ LoopContinues
    /\ LET r == Apply(func, data, key)
       IN  IF r.exc # "none"
           THEN /\ pc' = "raised"
                /\ err' = r
                /\ UNCHANGED <<iter, output, trace>>
           ELSE /\ output' = r.val
                /\ iter' = iter + 1
                /\ trace' = Append(trace, Event("call", iter + 1, <<data, key>>, r.val))
                /\ UNCHANGED <<pc, err>>
    /\ UNCHANGED <<NUM_ITERATIONS, inv, mainvars, func, data, cpu_before, t_before,
                   t_after, cpu_after, cpu_clock, codecvars>>

SampleTAfter ==
    /\ pc = "loop"
    /\ ~LoopContinues
    /\ \E now \in 0..MaxClock :
        /\ t_after' = now
        /\ trace' = Append(trace, Event("t_after", now, <<>>, <<>>))
    /\ pc' = "cpu_after"
    /\ UNCHANGED <<NUM_ITERATIONS, inv, mainvars, func, data, cpu_before, t_before, iter,
                   output, cpu_after, err, cpu_clock, codecvars>>

SampleCpuAfter ==
    /\ pc = "cpu_after"
    /\ \E c \in cpu_clock..MaxCpu :
        /\ cpu_after' = c
        /\ cpu_clock' = c
        /\ trace' = Append(trace, Event("cpu_after", c, <<>>, <<>>))
    /\ pc' = "derive"
    /\ UNCHANGED <<NUM_ITERATIONS, inv, mainvars, func, data, cpu_before, t_before, iter,
                   output, t_after, err, codecvars>>

\* lines 58-67: the divisions raise ZeroDivisionError on a zero divisor; the frame
\* is gone once the function returns
Derive ==
    /\ pc = "derive"
    /\ IF t_after - t_before = 0
       THEN /\ pc' = "raised"
            /\ err' = Raise("ZeroDivisionError", "cpu_used / wall")
            /\ UNCHANGED <<mainvars, locals>>
       ELSE IF NUM_ITERATIONS = 0
       THEN /\ pc' = "raised"
            /\ err' = Raise("ZeroDivisionError", "wall / NUM_ITERATIONS")
            /\ UNCHANGED <<mainvars, locals>>
       ELSE IF output = NoBytes
       THEN /\ pc' = "raised"
            /\ err' = Raise("UnboundLocalError", "return output")
            /\ UNCHANGED <<mainvars, locals>>
       ELSE LET m == Metrics(cpu_before, t_before, t_after, cpu_after, NUM_ITERATIONS)
            IN  /\ IF inv = "enc"
                   THEN /\ ciphertext' = output
                        /\ enc' = m
                        /\ pc' = "call_dec"
                        /\ UNCHANGED <<decrypted, dec>>
                   ELSE /\ decrypted' = output
                        /\ dec' = m
                        /\ pc' = "strip"
                        /\ UNCHANGED <<ciphertext, enc>>
                /\ func' = None /\ data' = NoBytes
                /\ cpu_before' = NoNum /\ t_before' = NoNum /\ iter' = NoNum
                /\ output' = NoBytes /\ t_after' = NoNum /\ cpu_after' = NoNum
                /\ UNCHANGED <<user_text, key, data_block, decrypted_text, err>>
    /\ UNCHANGED <<NUM_ITERATIONS, inv, cpu_clock, trace, codecvars>>

Next ==
    \/ MainInput
    \/ CallEnc
    \/ SampleCpuBefore
    \/ SampleTBefore
    \/ LoopBody
    \/ SampleTAfter
    \/ SampleCpuAfter
    \/ Derive
    \/ CallDec
    \/ MainStrip

Spec == Init /\ [][Next]_vars

(***************************************************************************)
(* The codec's functions called by any caller with any arguments.          *)
(***************************************************************************)
CallEncrypt ==
    /\ call = NoCall
    /\ \E p \in Payloads, k \in Keys :
        /\ call' = [fn |-> "aes_encrypt", data |-> p, key |-> k]
        /\ ret' = aes_encrypt(p, k)
    /\ UNCHANGED <<NUM_ITERATIONS, pc, inv, mainvars, locals, err, cpu_clock, trace>>

CallDecrypt ==
    /\ call = NoCall
    /\ \E k \in Keys :
        \E c \in CiphertextsFor(k) :
            /\ call' = [fn |-> "aes_decrypt", data |-> c, key |-> k]
            /\ ret' = aes_decrypt(c, k)
    /\ UNCHANGED <<NUM_ITERATIONS, pc, inv, mainvars, locals, err, cpu_clock, trace>>

CallStrip ==
    /\ call = NoCall
    /\ \E p \in Payloads :
        /\ call' = [fn |-> "strip", data |-> p, key |-> <<>>]
        /\ ret' = Ok(strip(p))
    /\ UNCHANGED <<NUM_ITERATIONS, pc, inv, mainvars, locals, err, cpu_clock, trace>>

CodecNext ==
    \/ CallEncrypt
    \/ CallDecrypt
    \/ CallStrip

\* NUM_ITERATIONS as the source sets it; the codec does not read it
CodecInit ==
    /\ NUM_ITERATIONS = 1000
    /\ Start

CodecSpec == CodecInit /\ [][CodecNext]_vars

(***************************************************************************)
(* Reading the trace and the results of a call of measure_power_loop.     *)
(***************************************************************************)
Invocations == {"enc", "dec"}

EventsOf(v) == SelectSeq(trace, LAMBDA e : e.inv = v)
CallsOf(v) == SelectSeq(trace, LAMBDA e : e.inv = v /\ e.ev = "call")
Kinds(v) == LET evs == EventsOf(v) IN [i \in 1..Len(evs) |-> evs[i].ev]
HasSample(v, kind) == \E i \in 1..Len(trace) : trace[i].inv = v /\ trace[i].ev = kind
Sample(v, kind) ==
    trace[CHOOSE i \in 1..Len(trace) : trace[i].inv = v /\ trace[i].ev = kind].val

MetricsOf(v) == IF v = "enc" THEN enc ELSE dec
ResultOf(v) == IF v = "enc" THEN ciphertext ELSE decrypted
ArgsOf(v) == IF v = "enc" THEN <<data_block, key>> ELSE <<ciphertext, key>>

Returned(v) == MetricsOf(v) # NoMetrics
Failed(v) == pc = "raised" /\ inv = v
Ended(v) == Returned(v) \/ Failed(v)

IsPrefix(s, t) == Len(s) <= Len(t) /\ \A i \in 1..Len(s) : s[i] = t[i]

\* the events of one call that performs n calls of the operation
Shape(n) ==
    <<"cpu_before", "t_before">> \o [i \in 1..n |-> "call"] \o <<"t_after", "cpu_after">>

(***************************************************************************)
(* The errors the specification names, read off the exceptions the code    *)
(* raises: the code defines no exception of its own, so each name stands   *)
(* for the exception raised at the place where that condition is detected. *)
(***************************************************************************)
InvalidKeyLength(r) == r.exc = "ValueError" /\ r.at = "AES.new"
InvalidCiphertextLength(r) == r.exc = "ValueError" /\ r.at = "cipher.decrypt"
CorruptPadding(r) == r.exc # "none" /\ r.at = "unpad"
MalformedPayload(r) == r.exc # "none" /\ r.at = "strip"
ZeroIterationsRequested(r) == r.exc = "ZeroDivisionError" /\ r.at = "wall / NUM_ITERATIONS"
DegenerateTiming(r) == r.exc = "ZeroDivisionError" /\ r.at = "cpu_used / wall"

(***************************************************************************)
(* C1.  Round trip: once the program has stripped the tag (line 105), the  *)
(* text it holds is the text typed in, for every text (the empty one       *)
(* included) and every 16-byte key; on the way, decryption gives back the  *)
(* tagged payload that was encrypted.                                      *)
(***************************************************************************)
C1_RoundTrip ==
    /\ decrypted # NoBytes => decrypted = data_block
    /\ pc = "done" => decrypted_text = user_text

\* a text of 12 bytes: its payload fills a block, so a whole block of padding is added
C1_Witness ==
    /\ pc = "done"
    /\ Len(user_text) = 12
    /\ Len(ciphertext) = 2 * BLOCK
    /\ decrypted_text = user_text

(***************************************************************************)
(* C2.  aes_encrypt under a 16-byte key returns ((len // 16) + 1) * 16     *)
(* bytes: a multiple of 16, at least one more than the payload.            *)
(***************************************************************************)
C2_EncryptLength ==
    (call.fn = "aes_encrypt" /\ Len(call.key) = 16) =>
        /\ ret.exc = "none"
        /\ Len(ret.val) = ((Len(call.data) \div 16) + 1) * 16
        /\ Len(ret.val) % 16 = 0
        /\ Len(ret.val) >= Len(call.data) + 1

\* a block-aligned payload gains a whole block
C2_Witness ==
    /\ call.fn = "aes_encrypt"
    /\ Len(call.key) = 16
    /\ Len(call.data) = 2 * BLOCK
    /\ ret.exc = "none"
    /\ Len(ret.val) = 3 * BLOCK

(***************************************************************************)
(* C3.  With NUM_ITERATIONS >= 1, a call of measure_power_loop that has    *)
(* ended has called the operation exactly NUM_ITERATIONS times, one after  *)
(* the other, each time with the (data, key) it was given, and what it     *)
(* returns is the output of the last of these calls.  While it runs it     *)
(* never exceeds that number of calls.                                     *)
(***************************************************************************)
C3_ExactlyNCalls ==
    \A v \in Invocations :
        LET calls == CallsOf(v)
        IN  /\ Len(calls) <= NUM_ITERATIONS
            /\ \A i \in 1..Len(calls) :
                  /\ calls[i].val = i
                  /\ calls[i].args = ArgsOf(v)
            /\ (NUM_ITERATIONS >= 1 /\ Ended(v)) =>
                  /\ Len(calls) = NUM_ITERATIONS
                  /\ Returned(v) => ResultOf(v) = calls[NUM_ITERATIONS].out

C3_Witness ==
    /\ NUM_ITERATIONS = 2
    /\ Returned("dec")
    /\ Len(CallsOf("dec")) = 2
    /\ decrypted = CallsOf("dec")[2].out

(***************************************************************************)
(* C4.  With NUM_ITERATIONS = 0, a call of measure_power_loop fails with   *)
(* ZeroIterationsRequested, has made no call of the operation, and returns *)
(* neither output nor metrics.                                             *)
(***************************************************************************)
C4_ZeroIterations ==
    \A v \in Invocations :
        (NUM_ITERATIONS = 0 /\ Ended(v)) =>
            /\ Failed(v)
            /\ ZeroIterationsRequested(err)
            /\ CallsOf(v) = <<>>
            /\ ~Returned(v)
            /\ ResultOf(v) = NoBytes

(***************************************************************************)
(* C5.  aes_decrypt of a ciphertext whose decrypted data ends in a byte    *)
(* that is 0, more than 16 or more than the number of decrypted bytes      *)
(* fails with CorruptPadding and returns no byte string.                   *)
(***************************************************************************)
C5_CorruptPadding ==
    (/\ call.fn = "aes_decrypt"
     /\ Len(call.key) = 16
     /\ Len(call.data) > 0
     /\ Len(call.data) % BLOCK = 0) =>
        LET plain == cipher_decrypt(call.key, call.data).val
            last == plain[Len(plain)]
        IN  (last = 0 \/ last > 16 \/ last > Len(plain)) => CorruptPadding(ret)

(***************************************************************************)
(* C6.  aes_encrypt and aes_decrypt with a key that is not 16 bytes long   *)
(* (0, 24 and 32 bytes included) fail with InvalidKeyLength and return     *)
(* nothing.                                                                *)
(***************************************************************************)
C6_KeyLength ==
    (call.fn \in {"aes_encrypt", "aes_decrypt"} /\ Len(call.key) # 16) =>
        InvalidKeyLength(ret)

(***************************************************************************)
(* C7.  aes_decrypt of a ciphertext whose length is not a positive         *)
(* multiple of 16 (0 bytes, 17 bytes) fails with InvalidCiphertextLength,  *)
(* before any block is decrypted or any padding removed.                   *)
(***************************************************************************)
C7_CiphertextLength ==
    (/\ call.fn = "aes_decrypt"
     /\ Len(call.key) = 16
     /\ (Len(call.data) = 0 \/ Len(call.data) % BLOCK # 0)) =>
        InvalidCiphertextLength(ret)

(***************************************************************************)
(* C8.  A call of measure_power_loop whose t_after - t_before is zero or   *)
(* negative fails with DegenerateTiming and returns no metrics.  (Stated   *)
(* for NUM_ITERATIONS >= 1, where no other failure is in play.)            *)
(***************************************************************************)
C8_DegenerateTiming ==
    \A v \in Invocations :
        (/\ NUM_ITERATIONS >= 1
         /\ Ended(v)
         /\ HasSample(v, "t_before") /\ HasSample(v, "t_after")
         /\ Sample(v, "t_after") - Sample(v, "t_before") <= 0) =>
            /\ Failed(v)
            /\ DegenerateTiming(err)
            /\ ~Returned(v)

C10_OwnWindow ==
    /\ \A v \in Invocations :
          /\ LET kinds == Kinds(v)
                 shape == Shape(NUM_ITERATIONS)
             IN  /\ IsPrefix(kinds, shape)
                 /\ Ended(v) => kinds = shape
          /\ Returned(v) =>
                LET wall == Sample(v, "t_after") - Sample(v, "t_before")
                    cpu_used == Sample(v, "cpu_after") - Sample(v, "cpu_before")
                IN  /\ MetricsOf(v).cpu_percent = <<cpu_used * 100, wall>>
                    /\ MetricsOf(v).avg_time = <<wall, NUM_ITERATIONS>>
    /\ \A i \in 1..(Len(trace) - 1) :
          trace[i].inv = "dec" => trace[i + 1].inv = "dec"

\* the decrypt call returns after the encrypt call has used CPU time of its own
C10_Witness ==
    /\ Returned("enc") /\ Returned("dec")
    /\ NUM_ITERATIONS = 2
    /\ Kinds("dec") = Shape(2)
    /\ Sample("enc", "cpu_after") > Sample("enc", "cpu_before")
    /\ Sample("dec", "cpu_before") > 0

=============================================================================
